---- MODULE Spec2Model ----
(***************************************************************************)
(* Model of src/app/main.py: the GracefulShutdown coordinator, the HTTP    *)
(* request middleware that brackets every request with start_request() / *)
(* end_request(), the route handlers behind call_next, and the Prometheus  *)
(* counters the middleware feeds.                                          *)
(*                                                                         *)
(* Everything runs on one asyncio event loop, so the code between two      *)
(* awaits is one atomic step.  The middleware has two such segments        *)
(* (before and after `await call_next(request)`), the handler runs in      *)
(* between, and shutdown() has one segment per turn of its polling loop.   *)
(***************************************************************************)
EXTENDS Integers, Sequences, FiniteSets, Bags, TLC

\* ---------------------------------------------------------------- bounds
NumRequests == 2        \* requests that arrive during one run

MaxCount == 3           \* longest numbers array handed to calculate_statistics
MaxValue == 2           \* largest magnitude in an array of two or more numbers
MaxTextChars == 4       \* longest text handed to analyze_text
FloatExact == 4         \* stand-in for 2**53: up to here every integer is a float
FloatMax == 6           \* stand-in for the largest finite float

\* ------------------------------------------------------ program constants
MaxNumbers == 10000     \* validate_numbers: len(v) > 10000 is rejected
MaxTextLen == 50000     \* validate_text: len(v) > 50000 is rejected
MinTextLen == 1         \* Field(..., min_length=1)

Requests == 1..NumRequests
\* shutdown() is called by the lifespan teardown and by the task that
\* signal_handler creates
Callers == {"lifespan", "signal"}

VARIABLES
    accepting_requests,   \* GracefulShutdown.accepting_requests
    active_requests,      \* GracefulShutdown.active_requests
    shutdown_event,       \* GracefulShutdown.shutdown_event.is_set()
    req,                  \* per request: position in the middleware, input, outcome, event log
    sd,                   \* per shutdown() call: pc "idle", "sleeping" (in asyncio.sleep) or
                          \* "done", and whether it logged "Waiting for ... active requests"
    REQUEST_COUNT,        \* bag of <<method, endpoint, status>>
    REQUEST_DURATION,     \* bag of <<method, endpoint>>: one copy per observation
    ERROR_COUNT,          \* bag of <<endpoint, error_type>>
    probe,                \* the argument handed to PayloadRequest / calculate_statistics /
                          \* analyze_text when one of them is exercised on its own
    outcome               \* what that call produced

vars == <<accepting_requests, active_requests, shutdown_event, req, sd,
          REQUEST_COUNT, REQUEST_DURATION, ERROR_COUNT, probe, outcome>>

\* ----------------------------------------------------------------- inputs
NoBody == [nlen |-> -1, tlen |-> -1, computable |-> TRUE]
\* a /payload body: how many numbers, how many characters of text, and whether
\* the statistics of the numbers can be computed (float(10**400) overflows)
ValidBody == [nlen |-> 1, tlen |-> 1, computable |-> TRUE]
Bodies == { ValidBody,
            [nlen |-> 0, tlen |-> 1, computable |-> TRUE],
            [nlen |-> 1, tlen |-> 1, computable |-> FALSE] }

\* what can go wrong below the middleware without the handler's doing: nothing,
\* an Exception escaping the application, or a BaseException (task cancelled)
Faults == {"none", "RuntimeError", "CancelledError"}

\* a request: method, path, body, and the fault its downstream call meets.  The
\* middleware treats every route alike, so faults are injected on one route.
Inputs == { [method |-> "GET", path |-> "/health", body |-> NoBody, fault |-> "none"],
            [method |-> "GET", path |-> "/ready", body |-> NoBody, fault |-> "none"],
            [method |-> "GET", path |-> "/metrics", body |-> NoBody, fault |-> "none"] }
          \cup { [method |-> "POST", path |-> "/payload", body |-> b, fault |-> "none"] : b \in Bodies }
          \cup { [method |-> "POST", path |-> "/payload", body |-> ValidBody, fault |-> f] : f \in Faults }
NoInput == [method |-> "", path |-> "", body |-> NoBody, fault |-> "none"]

NoResult == [kind |-> "none", status |-> 0, detail |-> ""]
ResponseOf(status, detail) == [kind |-> "response", status |-> status, detail |-> detail]
HTTPException(status, detail) == [kind |-> "HTTPException", status |-> status, detail |-> detail]
Raised(kind) == [kind |-> kind, status |-> 0, detail |-> ""]

\* --------------------------------------------------- GracefulShutdown
\* mutant: the admission check is missing
StartRejects_Never(accepting) == FALSE

\* start_request(): `if not self.accepting_requests: raise HTTPException(503)`
StartRejects(accepting) == ~accepting

\* mutant: the increment is missing
AfterStart_Missing(n) == n

\* start_request(): `self.active_requests += 1`
AfterStart(n) == n + 1

\* mutant: a decrement is lost when two requests are in flight
AfterEnd_Lost(n) == IF n >= 2 THEN n ELSE n - 1

\* end_request(): `self.active_requests -= 1`
AfterEnd(n) == n - 1

\* mutant: shutdown() leaves the flag alone
AcceptingAfterShutdown_True == TRUE

\* shutdown(): `self.accepting_requests = False`
AcceptingAfterShutdown == FALSE

\* mutant: shutdown() does not wait for the requests in flight
StillDraining_Never(n) == FALSE

\* mutant: the loop condition is off by one and never becomes false
StillDraining_Forever(n) == n >= 0

\* shutdown(): `while self.active_requests > 0`
StillDraining(n) == n > 0

\* ------------------------------------------------------------- handlers
\* mutant: the upper limits are exclusive
PayloadValid_OffByOne(body) ==
    /\ body.nlen >= 1
    /\ body.nlen < MaxNumbers
    /\ body.tlen >= MinTextLen
    /\ body.tlen < MaxTextLen

\* PayloadRequest: numbers non-empty and at most 10000, text of 1..50000 characters
PayloadValid(body) ==
    /\ body.nlen >= 1
    /\ body.nlen <= MaxNumbers
    /\ body.tlen >= MinTextLen
    /\ body.tlen <= MaxTextLen

health_check == ResponseOf(200, "healthy")

\* mutant: the readiness probe ignores the flag
readiness_check_Always(accepting) == ResponseOf(200, "ready")

readiness_check(accepting) ==
    IF ~accepting THEN HTTPException(503, "Service not ready")
    ELSE ResponseOf(200, "ready")

\* process_payload: validation first; a failure in calculate_statistics /
\* analyze_text surfaces as HTTPException(500) and is re-raised as such
process_payload(body) ==
    IF ~PayloadValid(body) THEN Raised("RequestValidationError")
    ELSE IF ~body.computable THEN HTTPException(500, "Error calculating statistics")
    ELSE ResponseOf(200, "payload")

get_metrics == ResponseOf(200, "metrics")

Route(in, accepting) ==
    CASE in.path = "/health" -> health_check
      [] in.path = "/ready" -> readiness_check(accepting)
      [] in.path = "/payload" -> process_payload(in.body)
      [] OTHER -> get_metrics

\* `await call_next(request)`: the application below the middleware renders an
\* HTTPException as a response with its status code and a validation error as a
\* 422 response; any other exception is raised into the middleware
call_next(res, fault) ==
    IF fault # "none" THEN Raised(fault)
    ELSE IF res.kind = "HTTPException" THEN ResponseOf(res.status, res.detail)
    ELSE IF res.kind = "RequestValidationError" THEN ResponseOf(422, "validation")
    ELSE res

\* `except Exception`: CancelledError is a BaseException and is not caught
IsException(kind) == kind \notin {"response", "none", "CancelledError"}

\* mutant: start_request() moved inside the try block, so that a rejection
\* runs the except and finally blocks
MiddlewareHead_InTry(accepting) ==
    IF StartRejects(accepting) THEN <<"start_request_raise", "inc_errors", "end_request", "raise">>
    ELSE <<"start_request">>

\* mutant: end_request() at the end of the try block instead of in a finally
MiddlewareTail_NoFinally(kind) ==
    IF kind = "response" THEN <<"observe", "inc_requests", "end_request", "return">>
    ELSE IF IsException(kind) THEN <<"inc_errors", "raise">>
    ELSE <<"raise">>

\* mutant: end_request() runs on entering the try block's tail, before the
\* metrics are recorded
MiddlewareTail_ReleaseFirst(kind) ==
    IF kind = "response" THEN <<"end_request", "observe", "inc_requests", "return">>
    ELSE IF IsException(kind) THEN <<"end_request", "inc_errors", "raise">>
    ELSE <<"end_request", "raise">>

\* mutant: the duration is observed but the request counter is not incremented
MiddlewareTail_NoCount(kind) ==
    IF kind = "response" THEN <<"observe", "end_request", "return">>
    ELSE IF IsException(kind) THEN <<"inc_errors", "end_request", "raise">>
    ELSE <<"end_request", "raise">>

\* ------------------------------------------------- request_middleware
\* The statements the middleware executes, in order, before `await call_next`:
\* start_request() stands outside the try block, so when it raises nothing
\* else of the middleware runs.
MiddlewareHead(accepting) ==
    IF StartRejects(accepting) THEN <<"start_request_raise">>
    ELSE <<"start_request">>

\* The statements the middleware executes, in order, once call_next has
\* returned a response, raised an Exception, or raised a BaseException: the
\* try block's metrics or the except block's, then the finally block.
MiddlewareTail(kind) ==
    IF kind = "response" THEN <<"observe", "inc_requests", "end_request", "return">>
    ELSE IF IsException(kind) THEN <<"inc_errors", "end_request", "raise">>
    ELSE <<"end_request", "raise">>

\* mutant: the error counter is labelled with the method instead of the
\* exception's type name
Effect_ErrorLabel(st, e, in, res) ==
    CASE e = "start_request" -> [st EXCEPT !.active = AfterStart(@)]
      [] e = "end_request" -> [st EXCEPT !.active = AfterEnd(@)]
      [] e = "observe" -> [st EXCEPT !.rd = @ (+) SetToBag({<<in.method, in.path>>})]
      [] e = "inc_requests" ->
            [st EXCEPT !.rc = @ (+) SetToBag({<<in.method, in.path, res.status>>})]
      [] e = "inc_errors" -> [st EXCEPT !.ec = @ (+) SetToBag({<<in.path, in.method>>})]
      [] OTHER -> st

\* the effect of one statement on the coordinator's counter and on the registry
Effect(st, e, in, res) ==
    CASE e = "start_request" -> [st EXCEPT !.active = AfterStart(@)]
      [] e = "end_request" -> [st EXCEPT !.active = AfterEnd(@)]
      [] e = "observe" -> [st EXCEPT !.rd = @ (+) SetToBag({<<in.method, in.path>>})]
      [] e = "inc_requests" ->
            [st EXCEPT !.rc = @ (+) SetToBag({<<in.method, in.path, res.status>>})]
      [] e = "inc_errors" -> [st EXCEPT !.ec = @ (+) SetToBag({<<in.path, res.kind>>})]
      [] OTHER -> st

RECURSIVE Run(_, _, _, _)
Run(st, evs, in, res) ==
    IF evs = <<>> THEN st
    ELSE Run(Effect(st, Head(evs), in, res), Tail(evs), in, res)

Shared == [active |-> active_requests, rc |-> REQUEST_COUNT,
           rd |-> REQUEST_DURATION, ec |-> ERROR_COUNT]

Store(st) ==
    /\ active_requests' = st.active
    /\ REQUEST_COUNT' = st.rc
    /\ REQUEST_DURATION' = st.rd
    /\ ERROR_COUNT' = st.ec

\* ----------------------------------------------------------------- Init
NoProbe == [kind |-> "none", value |-> <<>>]
NoOutcome == [pc |-> "none", ok |-> FALSE, value |-> <<>>]

\* the service right after start-up: module-level registry and shutdown_handler
ServiceIdle ==
    /\ accepting_requests = TRUE
    /\ active_requests = 0
    /\ shutdown_event = FALSE
    /\ req = [r \in Requests |->
                [pc |-> "idle", in |-> NoInput, result |-> NoResult, log |-> <<>>]]
    /\ sd = [c \in Callers |-> [pc |-> "idle", waited |-> FALSE]]
    /\ REQUEST_COUNT = EmptyBag
    /\ REQUEST_DURATION = EmptyBag
    /\ ERROR_COUNT = EmptyBag

Init ==
    /\ ServiceIdle
    /\ probe = NoProbe
    /\ outcome = NoOutcome

\* ---------------------------------------------------------------- actions
\* request_middleware up to `await call_next(request)`.  Requests are numbered
\* in the order they arrive.
Admit(r) ==
    /\ req[r].pc = "idle"
    /\ IF r = 1 THEN TRUE ELSE req[r - 1].pc # "idle"
    /\ \E in \in Inputs :
         LET evs == MiddlewareHead(accepting_requests)
             rejected == evs[1] = "start_request_raise"
             res == IF rejected THEN HTTPException(503, "Service is shutting down")
                    ELSE NoResult
         IN  /\ req' = [req EXCEPT ![r] =
                          [pc |-> IF rejected THEN "done" ELSE "admitted",
                           in |-> in, result |-> res, log |-> evs]]
             /\ Store(Run(Shared, evs, in, res))
    /\ UNCHANGED <<accepting_requests, shutdown_event, sd, probe, outcome>>

\* the downstream application runs the route's handler and hands the outcome
\* back to the middleware
Handle(r) ==
    /\ req[r].pc = "admitted"
    /\ req' = [req EXCEPT ![r].pc = "handled",
                          ![r].result = call_next(Route(req[r].in, accepting_requests),
                                                  req[r].in.fault),
                          ![r].log = Append(@, "call_next")]
    /\ UNCHANGED <<accepting_requests, active_requests, shutdown_event, sd,
                   REQUEST_COUNT, REQUEST_DURATION, ERROR_COUNT, probe, outcome>>

\* request_middleware after call_next, to its return or re-raise
Complete(r) ==
    /\ req[r].pc = "handled"
    /\ LET evs == MiddlewareTail(req[r].result.kind)
       IN  /\ req' = [req EXCEPT ![r].pc = "done", ![r].log = @ \o evs]
           /\ Store(Run(Shared, evs, req[r].in, req[r].result))
    /\ UNCHANGED <<accepting_requests, shutdown_event, sd, probe, outcome>>

\* shutdown() from its first line to the first await or to its end
ShutdownBegin(c) ==
    /\ sd[c].pc = "idle"
    /\ accepting_requests' = AcceptingAfterShutdown
    /\ IF StillDraining(active_requests)
       THEN /\ sd' = [sd EXCEPT ![c] = [pc |-> "sleeping", waited |-> TRUE]]
            /\ UNCHANGED shutdown_event
       ELSE /\ sd' = [sd EXCEPT ![c].pc = "done"]
            /\ shutdown_event' = TRUE
    /\ UNCHANGED <<active_requests, req, REQUEST_COUNT, REQUEST_DURATION, ERROR_COUNT,
                   probe, outcome>>

\* shutdown() resuming after `await asyncio.sleep(0.1)`: the loop condition again
ShutdownPoll(c) ==
    /\ sd[c].pc = "sleeping"
    /\ IF StillDraining(active_requests)
       THEN UNCHANGED <<sd, shutdown_event>>
       ELSE /\ sd' = [sd EXCEPT ![c].pc = "done"]
            /\ shutdown_event' = TRUE
    /\ UNCHANGED <<accepting_requests, active_requests, req,
                   REQUEST_COUNT, REQUEST_DURATION, ERROR_COUNT, probe, outcome>>

Next ==
    \/ \E r \in Requests : Admit(r)
    \/ \E r \in Requests : Handle(r)
    \/ \E r \in Requests : Complete(r)
    \/ \E c \in Callers : ShutdownBegin(c)
    \/ \E c \in Callers : ShutdownPoll(c)

Spec == Init /\ [][Next]_vars

\* The event loop runs every task that is ready: an admitted request's handler
\* and the rest of its middleware run, and a sleeping shutdown() wakes up.
FairSpec ==
    /\ Spec
    /\ \A r \in Requests : WF_vars(Handle(r)) /\ WF_vars(Complete(r))
    /\ \A c \in Callers : WF_vars(ShutdownPoll(c))

\* ------------------------------------------- POST /payload validation
\* process_payload's body runs only for a payload that passed PayloadRequest:
\* the engines it hands to the executor, in order
EnginesRun(body) ==
    IF PayloadValid(body) THEN <<"calculate_statistics", "analyze_text">> ELSE <<>>

\* lengths around the limits of PayloadRequest; -1 stands for a missing field
NumbersLens == {-1, 0, 1, 2, MaxNumbers - 1, MaxNumbers, MaxNumbers + 1}
TextLens == {-1, 0, MinTextLen, MinTextLen + 1, MaxTextLen - 1, MaxTextLen, MaxTextLen + 1}

InitValidation ==
    /\ ServiceIdle
    /\ \E n \in NumbersLens, t \in TextLens, c \in BOOLEAN :
         probe = [kind |-> "body", value |-> [nlen |-> n, tlen |-> t, computable |-> c]]
    /\ outcome = NoOutcome

\* POST /payload with the probed body, as call_next hands it to the middleware
ValidatePayload ==
    /\ probe.kind = "body"
    /\ outcome.pc = "none"
    /\ LET res == call_next(process_payload(probe.value), "none")
       IN  outcome' = [pc |-> "done", ok |-> res.status = 200,
                       value |-> [result |-> res, engines |-> EnginesRun(probe.value)]]
    /\ UNCHANGED <<accepting_requests, active_requests, shutdown_event, req, sd,
                   REQUEST_COUNT, REQUEST_DURATION, ERROR_COUNT, probe>>

ValidationSpec == InitValidation /\ [][ValidatePayload]_vars

\* ------------------------------------------------ calculate_statistics
\* A float is a reduced fraction n/d, or its square root when `root` is set;
\* `err` names the exception raised instead of a value.
Abs(x) == IF x < 0 THEN -x ELSE x

RECURSIVE GCD(_, _)
GCD(a, b) == IF b = 0 THEN a ELSE GCD(b, a % b)

Frac(n, d) ==
    LET g == GCD(Abs(n), d)
    IN  [n |-> n \div g, d |-> d \div g, root |-> FALSE, err |-> ""]

Err(name) == [n |-> 0, d |-> 1, root |-> FALSE, err |-> name]

\* float(x) of an int: exact up to FloatExact, rounded to the nearest float
\* (every other integer, ties to the even mantissa) above it, OverflowError
\* beyond the largest float
ToFloat(x) ==
    LET r == IF Abs(x) <= FloatExact \/ x % 2 = 0 THEN x
             ELSE IF (x + 1) % 4 = 0 THEN x + 1 ELSE x - 1
    IN  IF Abs(r) > FloatMax THEN Err("OverflowError") ELSE Frac(r, 1)

\* float() of the exact ratio n/d that statistics.mean / median return
FloatOfRatio(n, d) == IF n % d = 0 THEN ToFloat(n \div d) ELSE Frac(n, d)

RECURSIVE Sum(_)
Sum(numbers) == IF numbers = <<>> THEN 0 ELSE Head(numbers) + Sum(Tail(numbers))

RECURSIVE SumSq(_)
SumSq(numbers) ==
    IF numbers = <<>> THEN 0 ELSE Head(numbers) * Head(numbers) + SumSq(Tail(numbers))

Range(numbers) == {numbers[i] : i \in DOMAIN numbers}
Min(numbers) == CHOOSE m \in Range(numbers) : \A y \in Range(numbers) : m <= y
Max(numbers) == CHOOSE m \in Range(numbers) : \A y \in Range(numbers) : m >= y

mean(numbers) == FloatOfRatio(Sum(numbers), Len(numbers))

median(numbers) ==
    LET data == SortSeq(numbers, LAMBDA a, b : a < b)
        n == Len(data)
    IN  IF n % 2 = 1 THEN ToFloat(data[n \div 2 + 1])
        ELSE FloatOfRatio(data[n \div 2] + data[n \div 2 + 1], 2)

\* statistics.stdev: the square root of the sample variance; it raises
\* StatisticsError on fewer than two data points
stdev(numbers) ==
    LET n == Len(numbers)
        num == n * SumSq(numbers) - Sum(numbers) * Sum(numbers)
    IN  IF n < 2 THEN Err("StatisticsError")
        ELSE IF num = 0 THEN Frac(0, 1)
        ELSE [Frac(num, n * (n - 1)) EXCEPT !.root = TRUE]

\* mutant: the len(numbers) > 1 guard is missing
StdevOrPolicy_NoGuard(numbers) == stdev(numbers)

\* `float(statistics.stdev(numbers)) if len(numbers) > 1 else 0.0`
StdevOrPolicy(numbers) == IF Len(numbers) > 1 THEN stdev(numbers) ELSE Frac(0, 1)

\* calculate_statistics: the dict of the six entries, or HTTPException(500) when
\* building any of them raised
calculate_statistics(numbers) ==
    LET fields == [minimum |-> ToFloat(Min(numbers)),
                   maximum |-> ToFloat(Max(numbers)),
                   mean |-> mean(numbers),
                   median |-> median(numbers),
                   standard_deviation |-> StdevOrPolicy(numbers)]
        raised == \E k \in DOMAIN fields : fields[k].err # ""
    IN  IF raised
        THEN [ok |-> FALSE, error |-> HTTPException(500, "Error calculating statistics"),
              fields |-> fields, count |-> 0]
        ELSE [ok |-> TRUE, error |-> NoResult, fields |-> fields, count |-> Len(numbers)]

\* one number of any magnitude up to just beyond the float range, or two to
\* MaxCount small numbers
StatsInputs ==
    {<<x>> : x \in -(FloatMax + 1)..(FloatMax + 1)}
    \cup UNION {[1..k -> -MaxValue..MaxValue] : k \in 2..MaxCount}

InitStats ==
    /\ ServiceIdle
    /\ \E ns \in StatsInputs : probe = [kind |-> "numbers", value |-> ns]
    /\ outcome = NoOutcome

CalculateStatistics ==
    /\ probe.kind = "numbers"
    /\ outcome.pc = "none"
    /\ LET res == calculate_statistics(probe.value)
       IN  outcome' = [pc |-> "done", ok |-> res.ok, value |-> res]
    /\ UNCHANGED <<accepting_requests, active_requests, shutdown_event, req, sd,
                   REQUEST_COUNT, REQUEST_DURATION, ERROR_COUNT, probe>>

StatsSpec == InitStats /\ [][CalculateStatistics]_vars

\* -------------------------------------------------------- analyze_text
\* A text is a sequence of characters over letters, space, tab, newline, '.'
Chars == {"a", "b", " ", "\t", "\n", "."}

\* the characters str.split() separates on and str.strip() removes
IsSpace(c) == c \in {" ", "\t", "\n"}

RECURSIVE SplitWs(_, _, _)
SplitWs(text, cur, acc) ==
    IF text = <<>> THEN (IF cur = <<>> THEN acc ELSE Append(acc, cur))
    ELSE IF IsSpace(Head(text))
         THEN SplitWs(Tail(text), <<>>, IF cur = <<>> THEN acc ELSE Append(acc, cur))
         ELSE SplitWs(Tail(text), Append(cur, Head(text)), acc)

\* text.split(): the maximal runs of non-whitespace, no empty strings
split(text) == SplitWs(text, <<>>, <<>>)

RECURSIVE SplitSep(_, _, _, _)
SplitSep(text, sep, cur, acc) ==
    IF text = <<>> THEN Append(acc, cur)
    ELSE IF Head(text) = sep
         THEN SplitSep(Tail(text), sep, <<>>, Append(acc, cur))
         ELSE SplitSep(Tail(text), sep, Append(cur, Head(text)), acc)

\* text.split(sep): the segments between separators, empty ones included
split_on(text, sep) == SplitSep(text, sep, <<>>, <<>>)

\* `if s.strip()`: something is left once the whitespace at both ends is removed
StripNonEmpty(seg) == \E i \in DOMAIN seg : ~IsSpace(seg[i])

\* mutant: every whitespace character is removed
RemoveSpaces_AllWhitespace(text) == SelectSeq(text, LAMBDA c : ~IsSpace(c))

\* text.replace(" ", "")
RemoveSpaces(text) == SelectSeq(text, LAMBDA c : c # " ")

analyze_text(text) ==
    [word_count |-> Len(split(text)),
     character_count |-> Len(text),
     character_count_no_spaces |-> Len(RemoveSpaces(text)),
     sentence_count |-> Len(SelectSeq(split_on(text, "."), StripNonEmpty)),
     paragraph_count |-> Len(SelectSeq(split_on(text, "\n"), StripNonEmpty))]

TextInputs == UNION {[1..k -> Chars] : k \in 1..MaxTextChars}

InitText ==
    /\ ServiceIdle
    /\ \E t \in TextInputs : probe = [kind |-> "text", value |-> t]
    /\ outcome = NoOutcome

AnalyzeText ==
    /\ probe.kind = "text"
    /\ outcome.pc = "none"
    /\ outcome' = [pc |-> "done", ok |-> TRUE, value |-> analyze_text(probe.value)]
    /\ UNCHANGED <<accepting_requests, active_requests, shutdown_event, req, sd,
                   REQUEST_COUNT, REQUEST_DURATION, ERROR_COUNT, probe>>

TextSpec == InitText /\ [][AnalyzeText]_vars

\* lifespan: `await shutdown_handler.shutdown()` has returned and
\* "SRE Microservice stopped." is logged
lifespan_stopped == sd["lifespan"].pc = "done"

\* generate_latest(registry): the samples GET /metrics renders, per series
generate_latest ==
    [http_requests_total |-> REQUEST_COUNT,
     http_request_duration_seconds_count |-> REQUEST_DURATION,
     http_errors_total |-> ERROR_COUNT]

\* ------------------------------------------------------------ vocabulary
Count(s, e) == Cardinality({i \in DOMAIN s : s[i] = e})
Admitted(r) == Count(req[r].log, "start_request") > 0
Rejected(r) == Count(req[r].log, "start_request_raise") > 0
InFlight(r) == req[r].pc \in {"admitted", "handled"}
Done(r) == req[r].pc = "done"
ShutdownBegun == \E c \in Callers : sd[c].pc # "idle"

\* ---------------------------------------------------------------- claims
RECURSIVE NetSlots(_)
\* start_request() calls that succeeded minus end_request() calls, over requests 1..n
NetSlots(n) ==
    IF n = 0 THEN 0
    ELSE NetSlots(n - 1) + Count(req[n].log, "start_request")
                         - Count(req[n].log, "end_request")

\* C1: once a shutdown() call has begun, accepting_requests stays false, every
\* request that then enters the middleware is rejected by start_request() with
\* HTTPException(503) and leaves active_requests alone, active_requests never
\* increases, and the coordinator reaches STOPPED with active_requests at 0.
C1_AfterShutdownBegins ==
    /\ [][ShutdownBegun =>
            /\ ~accepting_requests /\ ~accepting_requests'
            /\ active_requests' <= active_requests
            /\ active_requests' >= 0
            /\ \A r \in Requests :
                 (req[r].pc = "idle" /\ req'[r].pc # "idle") =>
                    /\ req'[r].pc = "done"
                    /\ req'[r].result = HTTPException(503, "Service is shutting down")
                    /\ active_requests' = active_requests]_vars
    /\ ShutdownBegun ~> (shutdown_event /\ active_requests = 0)

\* C1 witness: shutdown() waited for requests in flight, a later request was
\* rejected, and the coordinator is STOPPED
C1_Witness ==
    /\ shutdown_event
    /\ active_requests = 0
    /\ \E c \in Callers : sd[c].waited
    /\ \E r \in Requests : Rejected(r) /\ req[r].result.status = 503
    /\ \E r \in Requests : Admitted(r) /\ Done(r)

\* C2: end_request() has run exactly once for every admitted request whose
\* middleware has finished, whatever call_next did (response, Exception or
\* BaseException), and never for another request; so each finished request
\* has given back the slot it took and active_requests is the number of
\* start_request() successes minus the number of end_request() calls.
C2_ReleasedExactlyOnce ==
    /\ \A r \in Requests :
         Count(req[r].log, "end_request") = IF Done(r) /\ Admitted(r) THEN 1 ELSE 0
    /\ \A r \in Requests : Count(req[r].log, "start_request") <= 1
    /\ active_requests = NetSlots(NumRequests)

\* C2 witness: one admitted request ended with a response and another with an
\* exception out of call_next, and both slots are back
C2_Witness ==
    /\ \E r \in Requests :
         Done(r) /\ Admitted(r) /\ req[r].result.kind = "response"
    /\ \E r \in Requests :
         Done(r) /\ Admitted(r) /\ req[r].result.kind \in {"RuntimeError", "CancelledError"}
    /\ active_requests = 0

\* C3: every shutdown() call that has begun finishes, with shutdown_event set
\* and active_requests at 0: the polling loop neither deadlocks nor leaves the
\* counter above zero for good.
C3_DrainTerminates ==
    \A c \in Callers :
        (sd[c].pc # "idle") ~>
            (sd[c].pc = "done" /\ shutdown_event /\ active_requests = 0)

\* C3 witness: both shutdown() calls polled while requests were in flight and
\* both have finished
C3_Witness ==
    /\ \A c \in Callers : sd[c].pc = "done" /\ sd[c].waited
    /\ shutdown_event
    /\ \E r \in Requests : Admitted(r) /\ Done(r)

\* C4: whenever no request is between its start_request() and its
\* end_request(), active_requests is 0, in whatever order the requests' steps
\* were interleaved.
C4_NoLostUpdates ==
    (\A r \in Requests : ~InFlight(r)) => active_requests = 0

\* C4 witness: every request was admitted and every one has been released
C4_Witness ==
    /\ \A r \in Requests : Admitted(r) /\ Done(r)
    /\ active_requests = 0

\* C5: shutdown() called more than once ends as one call does: every finished
\* call leaves accepting_requests false and shutdown_event set, no step of
\* shutdown() changes active_requests, and once all calls have begun all of
\* them finish.
C5_ShutdownIdempotent ==
    /\ [](\A c \in Callers :
            /\ sd[c].pc # "idle" => ~accepting_requests
            /\ sd[c].pc = "done" => shutdown_event /\ active_requests = 0)
    /\ [][(\E c \in Callers : sd'[c] # sd[c]) =>
             /\ active_requests' = active_requests
             /\ req' = req]_vars
    /\ (\A c \in Callers : sd[c].pc # "idle") ~> (\A c \in Callers : sd[c].pc = "done")

\* C5 witness: the signal's call waited for the drain, the lifespan's call came
\* after STOPPED and returned at once
C5_Witness ==
    /\ sd["signal"].pc = "done" /\ sd["signal"].waited
    /\ sd["lifespan"].pc = "done" /\ ~sd["lifespan"].waited
    /\ shutdown_event /\ ~accepting_requests

\* the request ended on one of the error paths: rejected at admission (503),
\* failed validation (422), failed in the computation (500), or call_next
\* raised an Exception
ErrorPath(r) ==
    \/ Rejected(r)
    \/ req[r].result.kind = "response" /\ req[r].result.status \in {422, 500}
    \/ Admitted(r) /\ IsException(req[r].result.kind)

FirstIndex(s, e) == CHOOSE i \in DOMAIN s : s[i] = e /\ \A j \in DOMAIN s : s[j] = e => i <= j

\* C6 (as claimed): every request that ended on an error path incremented
\* http_errors_total exactly once, and did so before its end_request().
C6_EveryErrorCountedOnce ==
    \A r \in Requests :
        (Done(r) /\ ErrorPath(r)) =>
            /\ Count(req[r].log, "inc_errors") = 1
            /\ Admitted(r) =>
                 FirstIndex(req[r].log, "inc_errors") < FirstIndex(req[r].log, "end_request")

\* C7: a request that arrives while accepting_requests is false leaves the
\* middleware at once: no call_next, no duration observed, no request counted,
\* no end_request(), and active_requests and both request metrics unchanged.
C7_RejectionShortCircuits ==
    /\ [][\A r \in Requests :
            (req[r].pc = "idle" /\ req'[r].pc # "idle" /\ ~accepting_requests) =>
                /\ req'[r].pc = "done"
                /\ active_requests' = active_requests
                /\ REQUEST_COUNT' = REQUEST_COUNT
                /\ REQUEST_DURATION' = REQUEST_DURATION]_vars
    /\ [](\A r \in Requests :
            Rejected(r) =>
                /\ Done(r)
                /\ \A e \in {"start_request", "call_next", "observe",
                             "inc_requests", "end_request"} : Count(req[r].log, e) = 0)

\* C7 witness: a request was rejected while another one was still in flight
C7_Witness ==
    \E r, q \in Requests : Rejected(r) /\ InFlight(q) /\ active_requests > 0

\* C8 (as claimed): every finished GET /health request was answered 200 "healthy".
C8_HealthAlways200 ==
    \A r \in Requests :
        (Done(r) /\ req[r].in.path = "/health") =>
            /\ req[r].result.status = 200
            /\ req[r].result.detail = "healthy"

C10_CounterIsLiveSlots ==
    /\ active_requests = Cardinality({r \in Requests : InFlight(r)})
    /\ active_requests >= 0

\* C10 witness: two requests hold a slot at the same time
C10_Witness ==
    /\ active_requests >= 2
    /\ Cardinality({r \in Requests : InFlight(r)}) >= 2

\* C11: shutdown is irreversible: accepting_requests never goes from false to
\* true, and once shutdown_event is set none of shutdown_event,
\* accepting_requests and active_requests changes again.
C11_ShutdownIrreversible ==
    /\ [][~accepting_requests => ~accepting_requests']_vars
    /\ [][shutdown_event =>
            /\ shutdown_event'
            /\ accepting_requests' = accepting_requests
            /\ active_requests' = active_requests]_vars

\* C11 witness: STOPPED was reached after a drain, and a request that came
\* afterwards has been turned away
C11_Witness ==
    /\ shutdown_event /\ ~accepting_requests
    /\ \E c \in Callers : sd[c].pc = "done" /\ sd[c].waited
    /\ \E r \in Requests : Rejected(r)

\* C12: when the lifespan teardown has returned from shutdown() and logged
\* "stopped", the coordinator is STOPPED and every admitted request has run
\* end_request().
C12_NoExitBeforeStopped ==
    lifespan_stopped =>
        /\ shutdown_event
        /\ active_requests = 0
        /\ \A r \in Requests : Admitted(r) => Count(req[r].log, "end_request") = 1

\* C12 witness: the teardown's shutdown() waited for a request in flight and
\* has returned
C12_Witness ==
    /\ lifespan_stopped
    /\ sd["lifespan"].waited
    /\ \E r \in Requests : Admitted(r) /\ Done(r)

\* C13: in the middleware of a finished admitted request, end_request() comes
\* after call_next and after the metric of the outcome (duration and request
\* counter on a response, error counter on an Exception) and directly before
\* the return or re-raise; a request that has returned holds no slot.
C13_ReleaseOrdering ==
    \A r \in Requests :
        (Done(r) /\ Admitted(r)) =>
            LET log == req[r].log
                rel == FirstIndex(log, "end_request")
            IN  /\ Count(log, "end_request") = 1
                /\ FirstIndex(log, "call_next") < rel
                /\ rel = Len(log) - 1
                /\ log[Len(log)] \in {"return", "raise"}
                /\ \A i \in DOMAIN log :
                     log[i] \in {"observe", "inc_requests", "inc_errors"} => i < rel
                /\ req[r].result.kind = "response" =>
                     Count(log, "observe") = 1 /\ Count(log, "inc_requests") = 1
                /\ req[r].result.kind = "RuntimeError" => Count(log, "inc_errors") = 1
                /\ ~InFlight(r)

\* C13 witness: one request returned a response and one re-raised an
\* Exception, each after releasing its slot
C13_Witness ==
    /\ \E r \in Requests :
         Done(r) /\ req[r].log = <<"start_request", "call_next", "observe",
                                   "inc_requests", "end_request", "return">>
    /\ \E r \in Requests :
         Done(r) /\ req[r].log = <<"start_request", "call_next", "inc_errors",
                                   "end_request", "raise">>

\* C15: once a POST /payload request has completed with status 200, the
\* registry that GET /metrics renders holds at least one http_requests_total
\* sample for (POST, /payload, 200) and at least one observation of
\* http_request_duration_seconds for (POST, /payload).
C15_MetricsAfterPayload ==
    (\E r \in Requests :
        /\ Done(r)
        /\ req[r].in.path = "/payload"
        /\ req[r].result.kind = "response"
        /\ req[r].result.status = 200) =>
      /\ CopiesIn(<<"POST", "/payload", 200>>, generate_latest.http_requests_total) >= 1
      /\ CopiesIn(<<"POST", "/payload">>,
                  generate_latest.http_request_duration_seconds_count) >= 1

\* C15 witness: a successful POST /payload has completed and a GET /metrics
\* request admitted after it has been served
C15_Witness ==
    \E r, q \in Requests :
        /\ r < q
        /\ Done(r) /\ req[r].in.path = "/payload" /\ req[r].result.status = 200
        /\ req[r].result.kind = "response"
        /\ Done(q) /\ req[q].in.path = "/metrics" /\ req[q].result.status = 200
        /\ CopiesIn(<<"POST", "/payload", 200>>, REQUEST_COUNT) = 1

\* C18: the middleware's step after call_next records exactly one of two
\* things.  On a response: one duration observation under (method, path), one
\* http_requests_total increment under (method, path, status), no error
\* counted, and the middleware returns.  On an Exception: one
\* http_errors_total increment under (path, exception type name), no request
\* counted, no duration observed, and the exception is re-raised.
C18_OneRecordPerOutcome ==
    [][\A r \in Requests :
         (req[r].pc = "handled" /\ req'[r].pc = "done") =>
            LET in == req[r].in
                res == req[r].result
                log == req'[r].log
            IN  /\ res.kind = "response" =>
                     /\ REQUEST_DURATION' = REQUEST_DURATION (+) SetToBag({<<in.method, in.path>>})
                     /\ REQUEST_COUNT' =
                          REQUEST_COUNT (+) SetToBag({<<in.method, in.path, res.status>>})
                     /\ ERROR_COUNT' = ERROR_COUNT
                     /\ log[Len(log)] = "return"
                /\ res.kind = "RuntimeError" =>
                     /\ ERROR_COUNT' = ERROR_COUNT (+) SetToBag({<<in.path, "RuntimeError">>})
                     /\ REQUEST_COUNT' = REQUEST_COUNT
                     /\ REQUEST_DURATION' = REQUEST_DURATION
                     /\ log[Len(log)] = "raise"]_vars

\* C18 witness: one request was counted as a 500 response and another as a
\* RuntimeError
C18_Witness ==
    /\ CopiesIn(<<"POST", "/payload", 500>>, REQUEST_COUNT) = 1
    /\ CopiesIn(<<"POST", "/payload">>, REQUEST_DURATION) = 1
    /\ CopiesIn(<<"/payload", "RuntimeError">>, ERROR_COUNT) = 1

\* C19: whenever shutdown_event is set, active_requests is 0 and
\* accepting_requests is false.
C19_StoppedMeansDrained ==
    shutdown_event => (active_requests = 0 /\ ~accepting_requests)

\* C19 witness: both shutdown() calls were polling while a request was
\* released, and completion has been signalled
C19_Witness ==
    /\ shutdown_event
    /\ \A c \in Callers : sd[c].waited
    /\ \E c \in Callers : sd[c].pc = "done"
    /\ \A r \in Requests : ~InFlight(r)

\* C14: a POST /payload body passes validation exactly when it has between 1
\* and 10000 numbers and between 1 and 50000 characters of text, both fields
\* present (the fields being a list of numbers and a string); every other
\* body is answered 422 and neither calculate_statistics nor analyze_text runs.
C14_ValidationBounds ==
    outcome.pc = "done" =>
        LET b == probe.value
            inRange == /\ 1 <= b.nlen /\ b.nlen <= 10000
                       /\ 1 <= b.tlen /\ b.tlen <= 50000
        IN  /\ inRange =>
                 /\ outcome.value.result.status # 422
                 /\ outcome.value.engines = <<"calculate_statistics", "analyze_text">>
            /\ ~inRange =>
                 /\ outcome.value.result = ResponseOf(422, "validation")
                 /\ outcome.value.engines = <<>>

\* C14 witness: 10000 numbers and 50000 characters were accepted and answered 200
C14_Witness ==
    /\ outcome.pc = "done"
    /\ probe.value.nlen = 10000
    /\ probe.value.tlen = 50000
    /\ outcome.value.result.status = 200

\* C16 (as claimed): for every single-element input [x], calculate_statistics
\* returns minimum = maximum = mean = median = x, standard_deviation = 0.0 and
\* count = 1.
C16_SingleElementEqualsX ==
    (outcome.pc = "done" /\ Len(probe.value) = 1) =>
        LET x == probe.value[1]
            f == outcome.value.fields
        IN  /\ outcome.ok
            /\ f.minimum = Frac(x, 1)
            /\ f.maximum = Frac(x, 1)
            /\ f.mean = Frac(x, 1)
            /\ f.median = Frac(x, 1)
            /\ f.standard_deviation = Frac(0, 1)
            /\ outcome.value.count = 1

\* C16 (amended): for every single-element input [x] whose float(x) does not
\* overflow, calculate_statistics returns minimum = maximum = mean = median =
\* float(x), which is x itself up to the exact range, standard_deviation = 0.0
\* and count = 1, and statistics.stdev is not called; for an x beyond the float
\* range it raises HTTPException(500).
C16_SingleElementFloat ==
    (outcome.pc = "done" /\ Len(probe.value) = 1) =>
        LET x == probe.value[1]
            f == outcome.value.fields
        IN  IF ToFloat(x).err = ""
            THEN /\ outcome.ok
                 /\ f.minimum = ToFloat(x) /\ f.maximum = ToFloat(x)
                 /\ f.mean = ToFloat(x) /\ f.median = ToFloat(x)
                 /\ Abs(x) <= FloatExact => f.minimum = Frac(x, 1)
                 /\ f.standard_deviation = Frac(0, 1)
                 /\ outcome.value.count = 1
            ELSE /\ ~outcome.ok
                 /\ outcome.value.error = HTTPException(500, "Error calculating statistics")

\* C16 witness: [2] gave 2.0 four times, 0.0 and count 1
C16_Witness ==
    /\ outcome.pc = "done"
    /\ probe.value = <<2>>
    /\ outcome.ok
    /\ outcome.value.fields.mean = Frac(2, 1)
    /\ outcome.value.fields.standard_deviation = Frac(0, 1)
    /\ outcome.value.count = 1

\* C17: for every text over letters, space, tab, newline and '.',
\* character_count is the length of the text, character_count_no_spaces is the
\* length minus the number of space characters (tabs and newlines stay
\* counted), and word_count is the number of maximal runs of characters that
\* are none of space, tab and newline.
C17_TextCounts ==
    outcome.pc = "done" =>
        LET text == probe.value
            ws == {" ", "\t", "\n"}
            spaces == {i \in DOMAIN text : text[i] = " "}
            runStarts == {i \in DOMAIN text :
                            /\ text[i] \notin ws
                            /\ IF i = 1 THEN TRUE ELSE text[i - 1] \in ws}
        IN  /\ outcome.value.character_count = Len(text)
            /\ outcome.value.character_count_no_spaces = Len(text) - Cardinality(spaces)
            /\ outcome.value.word_count = Cardinality(runStarts)

\* C17 witness: "a\t b" has 2 words, 4 characters, 3 without the space
C17_Witness ==
    /\ outcome.pc = "done"
    /\ probe.value = <<"a", "\t", " ", "b">>
    /\ outcome.value.word_count = 2
    /\ outcome.value.character_count = 4
    /\ outcome.value.character_count_no_spaces = 3

====
